---- MODULE Spec2Model ----
(***************************************************************************)
(* Durable upload queue of the RAG web client: the IndexedDB store         *)
(* (lib/upload-queue), the queue processor (lib/upload-processor) and the  *)
(* queue facade (contexts/upload-queue-context).                           *)
(*                                                                         *)
(* Every awaited store operation is one IndexedDB transaction and is       *)
(* modelled as one atomic step; the code that runs between two awaits is   *)
(* part of the step that ends at the next await.                           *)
(***************************************************************************)
EXTENDS Integers, Sequences, FiniteSets, TLC

\* ---------------------------------------------------------------- bounds
MaxEntries == 2     \* ids that crypto.randomUUID() can hand out
MaxPasses  == 2     \* processQueue() invocations that can be alive at once
MaxCalls   == 1     \* facade calls that can be in progress at once
MaxTicks   == 1     \* long waits between two steps
MaxAttempts == 3    \* transmissions started in one run, over all entries
MaxLag     == 0     \* refreshState() runs that may be unfinished when another step is taken
MaxSubscribes == 4  \* subscribe() calls in one run of the listener registry

\* ------------------------------------------------------ program constants
MAX_RETRIES   == 3
BASE_DELAY_MS == 1000
ONE_HOUR      == 60 * 60 * 1000
ONE_DAY       == 24 * ONE_HOUR

Ids    == 1..MaxEntries
Passes == 1..MaxPasses
Calls  == 1..MaxCalls

\* the functions handed to subscribe()
BusListeners == {"provider", "second", "third"}

\* how far the clock can advance between two steps
TickSteps == {ONE_HOUR + 1}

\* waits that bring an entry to the eviction thresholds of cleanupOld and
\* one millisecond past them
AgeSteps == {ONE_HOUR - 1, ONE_HOUR, ONE_DAY - 1, ONE_DAY}

\* errorMessage values
NoMessage     == "undefined"
MaxRetriesMsg == "Max retries exceeded"
\* the text a failed transmission reports (result.message, error.message)
FailureMsg    == "upload failed"

\* how a transmission call can settle
Outcomes == {"success", "unsuccessful", "abort", "auth", "error"}

VARIABLES
  store,          \* the object store "uploads": id -> QueuedUpload or NoEntry
  usedIds,        \* ids randomUUID() has already produced
  now,            \* Date.now(), in milliseconds
  ticks,          \* clock advances so far
  dbAvailable,    \* whether indexedDB.open succeeds in this page session
  processing,     \* upload-processor: let processing
  abortController,\* upload-processor: let abortController (TRUE = a controller)
  listeners,      \* upload-processor: const listeners (insertion order)
  pass,           \* the processQueue() invocations: pc, item, authFailed
  call,           \* the facade calls in progress
  mounted,        \* the provider's mount effect has run
  pendingRefresh, \* refreshState() runs started by the listener, not yet done
  queuedItems,    \* provider state: queuedItems
  isProcessingState, \* provider state: isProcessing
  prevCompletedCount,\* provider ref: prevCompletedCountRef
  attempts,       \* per id: transmissions started
  allFailed,      \* per id: no transmission of it ended other than in a failure
  newCompleted,   \* an entry reached completed since the last onUploadComplete
  lastCall,       \* what the last onUploadComplete call found: none/new/stale
  thrown,         \* the calls of this session that ended with an exception
  everFailed,     \* per id: a transmission of it ended in a failure
  stamp,          \* per listener: the subscribe() call that registered it, 0 = not registered
  subs,           \* subscribe() calls so far
  handle,         \* per listener: its unsubscribe function: none/held/called/again
  invoked         \* the listeners the last notifyListeners() called, in call order

vars == << store, usedIds, now, ticks, dbAvailable, processing,
           abortController, listeners, pass, call, mounted, pendingRefresh,
           queuedItems, isProcessingState, prevCompletedCount, attempts,
           allFailed, newCompleted, lastCall, thrown, everFailed, stamp,
           subs, handle, invoked >>

\* what only the listener registry's own run changes
busVars == << stamp, subs, handle, invoked >>

\* ------------------------------------------------------------ the store
NoEntry == [status |-> "absent", retryCount |-> 0, createdAt |-> 0,
            errorMessage |-> NoMessage]

EmptyStore == [i \in Ids |-> NoEntry]

Present(st, i) == st[i].status # "absent"

\* a stored record together with its key
WithId(st, i) == [id |-> i, status |-> st[i].status,
                  retryCount |-> st[i].retryCount,
                  createdAt |-> st[i].createdAt,
                  errorMessage |-> st[i].errorMessage]

RECURSIVE GetAllFrom(_, _)
GetAllFrom(st, i) ==
  IF i > MaxEntries THEN << >>
  ELSE IF Present(st, i) THEN << WithId(st, i) >> \o GetAllFrom(st, i + 1)
  ELSE GetAllFrom(st, i + 1)

\* store.getAll(): every record, in key order
getAllUploads(st) == GetAllFrom(st, 1)

IsPending(u) == u.status = "queued" \/ u.status = "uploading"

\* a selection that overlooks the entries left uploading
PendingMutant(st) ==
  SelectSeq(getAllUploads(st), LAMBDA u : u.status = "queued")

getPendingUploads(st) == SelectSeq(getAllUploads(st), IsPending)

\* an update that counts every return to the queue as an attempt
UpdateMutant(st, id, status, errorMessage) ==
  IF Present(st, id)
  THEN [st EXCEPT ![id] =
          [status |-> status,
           retryCount |-> IF status \in {"uploading", "queued"}
                          THEN @.retryCount + 1 ELSE @.retryCount,
           createdAt |-> @.createdAt,
           errorMessage |-> IF errorMessage # NoMessage THEN errorMessage
                            ELSE @.errorMessage]]
  ELSE st

\* an update that puts the record back under a key that is gone
UpsertMutant(st, id, status, errorMessage) ==
  [st EXCEPT ![id] =
     [status |-> status,
      retryCount |-> IF status = "uploading" THEN @.retryCount + 1
                     ELSE @.retryCount,
      createdAt |-> @.createdAt,
      errorMessage |-> IF errorMessage # NoMessage THEN errorMessage
                       ELSE @.errorMessage]]

updateStatus(st, id, status, errorMessage) ==
  IF Present(st, id)
  THEN [st EXCEPT ![id] =
          [status |-> status,
           retryCount |-> IF status = "uploading" THEN @.retryCount + 1
                          ELSE @.retryCount,
           createdAt |-> @.createdAt,
           errorMessage |-> IF errorMessage # NoMessage THEN errorMessage
                            ELSE @.errorMessage]]
  ELSE st

removeEntry(st, id) == [st EXCEPT ![id] = NoEntry]

\* entries evicted from the threshold age on
CleanupMutant(st, t) ==
  [i \in Ids |->
     IF ~Present(st, i) THEN NoEntry
     ELSE IF st[i].status = "completed" /\ t - st[i].createdAt >= ONE_HOUR
          THEN NoEntry
     ELSE IF t - st[i].createdAt >= ONE_DAY THEN NoEntry
     ELSE st[i]]

cleanupOld(st, t) ==
  [i \in Ids |->
     IF ~Present(st, i) THEN NoEntry
     ELSE IF st[i].status = "completed" /\ t - st[i].createdAt > ONE_HOUR
          THEN NoEntry
     ELSE IF t - st[i].createdAt > ONE_DAY THEN NoEntry
     ELSE st[i]]

\* the object store replaced by the new entries
EnqueueMutant(st, ids, t) ==
  [i \in Ids |-> IF i \in ids
                 THEN [status |-> "queued", retryCount |-> 0,
                       createdAt |-> t, errorMessage |-> NoMessage]
                 ELSE NoEntry]

\* files.map(...) followed by store.put for each entry
enqueueFiles(st, ids, t) ==
  [i \in Ids |-> IF i \in ids
                 THEN [status |-> "queued", retryCount |-> 0,
                       createdAt |-> t, errorMessage |-> NoMessage]
                 ELSE st[i]]

\* ------------------------------------------------------- the processor
\* Array.prototype.sort with (a, b) => a.createdAt - b.createdAt; the sort
\* is stable, so equal keys keep their stored order
RECURSIVE InsertByCreatedAt(_, _)
InsertByCreatedAt(u, s) ==
  IF s = << >> THEN << u >>
  ELSE IF u.createdAt < Head(s).createdAt THEN << u >> \o s
  ELSE << Head(s) >> \o InsertByCreatedAt(u, Tail(s))

\* the fetched list left in stored order
SortMutant(s) == s

RECURSIVE SortByCreatedAt(_)
SortByCreatedAt(s) ==
  IF s = << >> THEN << >>
  ELSE InsertByCreatedAt(s[Len(s)], SortByCreatedAt(SubSeq(s, 1, Len(s) - 1)))

NoItem == [id |-> 0, retryCount |-> 0]

IdlePass == [pc |-> "idle", item |-> NoItem, authFailed |-> FALSE]

NoCall == [kind |-> "none", pc |-> "none", todo |-> << >>]

\* ------------------------------------------------------- the facade view
statusOrder(status) ==
  CASE status = "uploading" -> 0
    [] status = "queued"    -> 1
    [] status = "failed"    -> 2
    [] OTHER                -> 3

\* a comparator that looks at the creation time only
DisplayMutant(a, b) == a.createdAt - b.createdAt < 0

\* the comparator of refreshState's items.sort
DisplayBefore(a, b) ==
  LET diff == statusOrder(a.status) - statusOrder(b.status)
  IN  IF diff # 0 THEN diff < 0 ELSE a.createdAt - b.createdAt < 0

RECURSIVE InsertForDisplay(_, _)
InsertForDisplay(u, s) ==
  IF s = << >> THEN << u >>
  ELSE IF DisplayBefore(u, Head(s)) THEN << u >> \o s
  ELSE << Head(s) >> \o InsertForDisplay(u, Tail(s))

RECURSIVE SortForDisplay(_)
SortForDisplay(s) ==
  IF s = << >> THEN << >>
  ELSE InsertForDisplay(s[Len(s)], SortForDisplay(SubSeq(s, 1, Len(s) - 1)))

IsCompleted(u) == u.status = "completed"
IsFailed(u) == u.status = "failed"

completedCount(items) == Len(SelectSeq(items, IsCompleted))

\* refreshState followed by the render it causes and the effect on
\* [queuedItems]: what the provider's state becomes and whether the effect
\* calls onUploadComplete
Refreshed ==
  IF dbAvailable
  THEN LET items == SortForDisplay(getAllUploads(store))
       IN  [queuedItems |-> items,
            isProcessing |-> processing,
            prev |-> completedCount(items),
            fires |-> IF completedCount(items) > prevCompletedCount
                         /\ prevCompletedCount > 0 THEN 1 ELSE 0]
  ELSE [queuedItems |-> queuedItems,
        isProcessing |-> isProcessingState,
        prev |-> prevCompletedCount,
        fires |-> 0]

\* ------------------------------------------------------------ the bus
\* listeners is a Set: its elements in insertion order, none twice
Registered(ls, l) == \E k \in 1..Len(ls) : ls[k] = l

\* listeners.add(listener), line 25
subscribe(ls, l) == IF Registered(ls, l) THEN ls ELSE Append(ls, l)

\* an unsubscribe function that deletes nothing
UnsubscribeMutant(ls, l) == ls

\* listeners.delete(listener), line 27: the function subscribe() returns
RECURSIVE unsubscribe(_, _)
unsubscribe(ls, l) ==
  IF ls = << >> THEN << >>
  ELSE IF Head(ls) = l THEN unsubscribe(Tail(ls), l)
  ELSE << Head(ls) >> \o unsubscribe(Tail(ls), l)

\* the listeners called last to first
RECURSIVE NotifyMutant(_)
NotifyMutant(ls) ==
  IF ls = << >> THEN << >>
  ELSE NotifyMutant(Tail(ls)) \o << Head(ls) >>

\* notifyListeners(), lines 18-22: for (const listener of listeners)
\* listener(); the calls it makes, in order
RECURSIVE notifyListeners(_)
notifyListeners(ls) ==
  IF ls = << >> THEN << >>
  ELSE << Head(ls) >> \o notifyListeners(Tail(ls))

\* a notification that reaches no listener
NotifyLost(k, ls) == pendingRefresh

\* notifyListeners, k times in a row: every listener is the provider's, and
\* each invocation starts one refreshState()
AfterNotify(k, ls) == pendingRefresh + k * Len(ls)

\* the refreshState() runs started so far have finished (all but MaxLag)
Drained == pendingRefresh <= MaxLag

\* onUploadCompleteRef.current?.() called k times in this step
AfterFiresLast(k) ==
  IF k = 0 THEN lastCall
  ELSE IF k = 1 /\ newCompleted THEN "new" ELSE "stale"

AfterFiresNew(k) == IF k = 0 THEN newCompleted ELSE FALSE

\* ---------------------------------------------------- processQueue()
IdlePasses == {p \in Passes : pass[p].pc = "idle"}

FreePass == CHOOSE p \in IdlePasses : \A q \in IdlePasses : p <= q

\* the synchronous head of processQueue(): lines 36-38, up to the first await
CanCallProcessQueue(ls) == processing \/ IdlePasses # {}

\* a processQueue() that returns at once whatever the flag says
ReturnsAtOnce(ls) ==
  [processing |-> processing, pass |-> pass, notifies |-> 0, fires |-> 1]

ProcessQueueCall(ls) ==
  IF processing
  THEN [processing |-> TRUE, pass |-> pass, notifies |-> 0, fires |-> 1]
  ELSE [processing |-> TRUE,
        pass |-> [pass EXCEPT ![FreePass] = [IdlePass EXCEPT !.pc = "cleanup"]],
        notifies |-> 1, fires |-> 0]

\* ---------------------------------------------------------------- Init
\* a freshly loaded page over an empty object store
Init ==
  /\ store = EmptyStore
  /\ usedIds = {}
  /\ now = 0
  /\ ticks = 0
  /\ dbAvailable \in BOOLEAN
  /\ processing = FALSE
  /\ abortController = FALSE
  /\ listeners = << >>
  /\ pass = [p \in Passes |-> IdlePass]
  /\ call = [c \in Calls |-> NoCall]
  /\ mounted = FALSE
  /\ pendingRefresh = 0
  /\ queuedItems = << >>
  /\ isProcessingState = FALSE
  /\ prevCompletedCount = 0
  /\ attempts = [i \in Ids |-> 0]
  /\ allFailed = [i \in Ids |-> TRUE]
  /\ newCompleted = FALSE
  /\ lastCall = "none"
  /\ thrown = {}
  /\ everFailed = [i \in Ids |-> FALSE]
  /\ stamp = [l \in BusListeners |-> 0]
  /\ subs = 0
  /\ handle = [l \in BusListeners |-> "none"]
  /\ invoked = << >>

\* ------------------------------------------------- processor: the pass
\* await cleanupOld(), line 41; a rejection runs the finally of lines 54-57
\* and rejects the promise, which has a then() but no catch()
CleanupStep(p) ==
  /\ pass[p].pc = "cleanup"
  /\ Drained
  /\ IF dbAvailable
     THEN /\ store' = cleanupOld(store, now)
          /\ pass' = [pass EXCEPT ![p].pc = "fetch"]
          /\ UNCHANGED << processing, pendingRefresh, thrown >>
     ELSE /\ processing' = FALSE
          /\ pendingRefresh' = AfterNotify(1, listeners)
          /\ pass' = [pass EXCEPT ![p] = IdlePass]
          /\ thrown' = thrown \cup {"processQueue"}
          /\ UNCHANGED store
  /\ UNCHANGED << usedIds, now, ticks, dbAvailable, abortController, listeners,
                  call, mounted, queuedItems, isProcessingState,
                  prevCompletedCount, attempts, allFailed, newCompleted,
                  lastCall >>
  /\ UNCHANGED << everFailed, busVars >>

\* lines 45-50 and the test of line 61: read the pending entries, leave the
\* loop when there are none (finally, then the caller's then() callback),
\* otherwise take the oldest
FetchStep(p) ==
  /\ pass[p].pc = "fetch"
  /\ Drained
  /\ dbAvailable
  /\ LET pending == getPendingUploads(store)
         sorted  == SortByCreatedAt(pending)
         item    == sorted[1]
     IN  IF Len(pending) = 0
         THEN /\ processing' = FALSE
              /\ pendingRefresh' = AfterNotify(1, listeners)
              /\ pass' = [pass EXCEPT ![p] = IdlePass]
              /\ lastCall' = AfterFiresLast(1)
              /\ newCompleted' = AfterFiresNew(1)
         ELSE /\ pass' = [pass EXCEPT
                   ![p].item = [id |-> item.id, retryCount |-> item.retryCount],
                   ![p].pc = IF item.retryCount >= MAX_RETRIES
                             THEN "maxfail" ELSE "mark"]
              /\ UNCHANGED << processing, pendingRefresh, lastCall,
                              newCompleted >>
  /\ UNCHANGED << store, usedIds, now, ticks, dbAvailable, abortController,
                  listeners, call, mounted, queuedItems, isProcessingState,
                  prevCompletedCount, attempts, allFailed, thrown >>
  /\ UNCHANGED << everFailed, busVars >>

\* lines 62-64
MaxFailStep(p) ==
  /\ pass[p].pc = "maxfail"
  /\ Drained
  /\ store' = updateStatus(store, pass[p].item.id, "failed", MaxRetriesMsg)
  /\ pendingRefresh' = AfterNotify(1, listeners)
  /\ pass' = [pass EXCEPT ![p].pc = "fetch", ![p].item = NoItem]
  /\ UNCHANGED << usedIds, now, ticks, dbAvailable, processing,
                  abortController, listeners, call, mounted, queuedItems,
                  isProcessingState, prevCompletedCount, attempts, allFailed,
                  newCompleted, lastCall, thrown >>
  /\ UNCHANGED << everFailed, busVars >>

RECURSIVE SumTo(_, _)
SumTo(f, n) == IF n = 0 THEN 0 ELSE f[n] + SumTo(f, n - 1)

TotalAttempts == SumTo(attempts, MaxEntries)

\* lines 67-76: mark uploading, notify, start the transmission
Mark(p) ==
  /\ pass[p].pc = "mark"
  /\ Drained
  /\ store' = updateStatus(store, pass[p].item.id, "uploading", NoMessage)
  /\ pendingRefresh' = AfterNotify(1, listeners)
  /\ abortController' = TRUE
  /\ attempts' = [attempts EXCEPT ![pass[p].item.id] = @ + 1]
  /\ pass' = [pass EXCEPT ![p].pc = "transmit"]
  /\ UNCHANGED << usedIds, now, ticks, dbAvailable, processing, listeners,
                  call, mounted, queuedItems, isProcessingState,
                  prevCompletedCount, allFailed, newCompleted, lastCall,
                  thrown >>
  /\ UNCHANGED << everFailed, busVars >>

\* the same step while the run has transmissions left to start
MarkStep(p) ==
  /\ TotalAttempts < MaxAttempts
  /\ Mark(p)

\* Math.pow(2, n)
RECURSIVE Pow2(_)
Pow2(n) == IF n <= 0 THEN 1 ELSE 2 * Pow2(n - 1)

\* line 100: the backoff delay of the pass that sleeps
delay(p) == BASE_DELAY_MS * Pow2(pass[p].item.retryCount)

\* a cancellation recorded like a failure
StatusMutant(o) ==
  CASE o = "success" -> "completed"
    [] o = "auth"    -> "queued"
    [] OTHER         -> "failed"

\* the status and message processItem records for an outcome, lines 78-97
RecordedStatus(o) ==
  CASE o = "success"      -> "completed"
    [] o = "unsuccessful" -> "failed"
    [] o = "abort"        -> "queued"
    [] o = "auth"         -> "queued"
    [] OTHER              -> "failed"

RecordedMessage(o) ==
  CASE o = "unsuccessful" -> FailureMsg
    [] o = "error"        -> FailureMsg
    [] OTHER              -> NoMessage

\* the transmission settles with outcome o and processItem records it,
\* lines 78-106; after an authorization failure processItem clears the flag
\* and returns to the loop of processQueue
SettleStep(p, o) ==
  /\ pass[p].pc = "transmit"
  /\ LET id == pass[p].item.id
         n  == IF o = "auth" THEN 2 ELSE IF o = "error" THEN 0 ELSE 1
     IN  /\ Drained
         /\ store' = updateStatus(store, id, RecordedStatus(o),
                                  RecordedMessage(o))
         /\ pendingRefresh' = AfterNotify(n, listeners)
         /\ processing' = IF o = "auth" THEN FALSE ELSE processing
         /\ abortController' = IF o = "error" THEN abortController ELSE FALSE
         /\ allFailed' = IF o \in {"unsuccessful", "error"}
                         THEN allFailed ELSE [allFailed EXCEPT ![id] = FALSE]
         /\ newCompleted' = IF o = "success" /\ Present(store, id)
                            THEN TRUE ELSE newCompleted
         /\ pass' = [pass EXCEPT
               ![p].authFailed = IF o = "auth" THEN TRUE ELSE @,
               ![p].item = IF o = "error" THEN @ ELSE NoItem,
               ![p].pc = IF o = "error" THEN "sleep" ELSE "fetch"]
  /\ UNCHANGED << usedIds, now, ticks, dbAvailable, listeners, call, mounted,
                  queuedItems, isProcessingState, prevCompletedCount,
                  attempts, lastCall, thrown >>
  /\ everFailed' = IF o \in {"unsuccessful", "error"}
                   THEN [everFailed EXCEPT ![pass[p].item.id] = TRUE]
                   ELSE everFailed
  /\ UNCHANGED busVars

\* the backoff sleep of line 101 ends; the finally of lines 103-106
WakeStep(p) ==
  /\ pass[p].pc = "sleep"
  /\ Drained
  /\ pendingRefresh' = AfterNotify(1, listeners)
  /\ abortController' = FALSE
  /\ pass' = [pass EXCEPT ![p].pc = "fetch", ![p].item = NoItem]
  /\ UNCHANGED << store, usedIds, now, ticks, dbAvailable, processing,
                  listeners, call, mounted, queuedItems, isProcessingState,
                  prevCompletedCount, attempts, allFailed, newCompleted,
                  lastCall, thrown >>
  /\ UNCHANGED << everFailed, busVars >>

\* -------------------------------------------------------- the facade
\* the mount effect, lines 68-82: refreshState(), subscribe, processQueue()
Mount ==
  /\ ~mounted
  /\ LET ls == Append(listeners, "provider")
         pq == ProcessQueueCall(ls)
     IN  /\ CanCallProcessQueue(ls)
         /\ Drained
         /\ mounted' = TRUE
         /\ listeners' = ls
         /\ pendingRefresh' = pendingRefresh + 1 + pq.notifies * Len(ls)
         /\ processing' = pq.processing
         /\ pass' = pq.pass
         /\ lastCall' = AfterFiresLast(pq.fires)
         /\ newCompleted' = AfterFiresNew(pq.fires)
  /\ UNCHANGED << store, usedIds, now, ticks, dbAvailable, abortController,
                  call, queuedItems, isProcessingState, prevCompletedCount,
                  attempts, allFailed, thrown >>
  /\ UNCHANGED << everFailed, busVars >>

\* a refreshState() started by the mount effect or by the listener finishes
RefreshDone ==
  /\ pendingRefresh > 0
  /\ pendingRefresh' = pendingRefresh - 1
  /\ queuedItems' = Refreshed.queuedItems
  /\ isProcessingState' = Refreshed.isProcessing
  /\ prevCompletedCount' = Refreshed.prev
  /\ lastCall' = AfterFiresLast(Refreshed.fires)
  /\ newCompleted' = AfterFiresNew(Refreshed.fires)
  /\ UNCHANGED << store, usedIds, now, ticks, dbAvailable, processing,
                  abortController, listeners, pass, call, mounted, attempts,
                  allFailed, thrown >>
  /\ UNCHANGED << everFailed, busVars >>

FreeCalls == {c \in Calls : call[c].kind = "none"}

\* enqueue(files, fileType), line 98: await enqueueFiles(files, fileType)
\* with one fresh id per file; a rejection leaves enqueue through its caller.
\* The files of one call share one Date.now(); the next call reads a later one
EnqueueWrite(c, ids) ==
  /\ mounted
  /\ Drained
  /\ c \in FreeCalls /\ \A d \in FreeCalls : c <= d
  /\ ids # {} /\ ids \subseteq Ids \ usedIds
  /\ IF dbAvailable
     THEN /\ store' = enqueueFiles(store, ids, now)
          /\ usedIds' = usedIds \cup ids
          /\ now' = now + 1
          /\ call' = [call EXCEPT ![c] = [kind |-> "enqueue", pc |-> "refresh",
                                          todo |-> << >>]]
          /\ UNCHANGED thrown
     ELSE /\ thrown' = thrown \cup {"enqueue"}
          /\ UNCHANGED << store, usedIds, now, call >>
  /\ UNCHANGED << ticks, dbAvailable, processing, abortController,
                  listeners, pass, mounted, pendingRefresh, queuedItems,
                  isProcessingState, prevCompletedCount, attempts, allFailed,
                  newCompleted, lastCall >>
  /\ UNCHANGED << everFailed, busVars >>

RECURSIVE IdsOf(_)
IdsOf(s) == IF s = << >> THEN << >> ELSE << Head(s).id >> \o IdsOf(Tail(s))

\* retryFailed, line 108: const items = await getAllUploads()
RetryRead(c) ==
  /\ mounted
  /\ Drained
  /\ c \in FreeCalls /\ \A d \in FreeCalls : c <= d
  /\ IF dbAvailable
     THEN LET todo == IdsOf(SelectSeq(getAllUploads(store), IsFailed))
          IN  /\ call' = [call EXCEPT ![c] =
                    [kind |-> "retry",
                     pc |-> IF todo = << >> THEN "refresh" ELSE "update",
                     todo |-> todo]]
              /\ UNCHANGED thrown
     ELSE /\ thrown' = thrown \cup {"retryFailed"}
          /\ UNCHANGED call
  /\ UNCHANGED << store, usedIds, now, ticks, dbAvailable, processing,
                  abortController, listeners, pass, mounted, pendingRefresh,
                  queuedItems, isProcessingState, prevCompletedCount,
                  attempts, allFailed, newCompleted, lastCall >>
  /\ UNCHANGED << everFailed, busVars >>

\* retryFailed, lines 109-113: the next await updateStatus(item.id, "queued")
RetryUpdate(c) ==
  /\ call[c].kind = "retry" /\ call[c].pc = "update"
  /\ Drained
  /\ store' = updateStatus(store, Head(call[c].todo), "queued", NoMessage)
  /\ call' = [call EXCEPT ![c].todo = Tail(@),
                          ![c].pc = IF Tail(call[c].todo) = << >>
                                    THEN "refresh" ELSE "update"]
  /\ UNCHANGED << usedIds, now, ticks, dbAvailable, processing,
                  abortController, listeners, pass, mounted, pendingRefresh,
                  queuedItems, isProcessingState, prevCompletedCount,
                  attempts, allFailed, newCompleted, lastCall, thrown >>
  /\ UNCHANGED << everFailed, busVars >>

\* removeFromQueue(id), line 122: await removeEntry(id)
RemoveWrite(c, id) ==
  /\ mounted
  /\ Drained
  /\ c \in FreeCalls /\ \A d \in FreeCalls : c <= d
  /\ Present(store, id)
  /\ IF dbAvailable
     THEN /\ store' = removeEntry(store, id)
          /\ call' = [call EXCEPT ![c] = [kind |-> "remove", pc |-> "refresh",
                                          todo |-> << >>]]
          /\ UNCHANGED thrown
     ELSE /\ thrown' = thrown \cup {"removeFromQueue"}
          /\ UNCHANGED << store, call >>
  /\ UNCHANGED << usedIds, now, ticks, dbAvailable, processing,
                  abortController, listeners, pass, mounted, pendingRefresh,
                  queuedItems, isProcessingState, prevCompletedCount,
                  attempts, allFailed, newCompleted, lastCall >>
  /\ UNCHANGED << everFailed, busVars >>

\* the await refreshState() that ends enqueue, retryFailed and
\* removeFromQueue, followed in the first two by processQueue().then(...)
FacadeRefresh(c) ==
  /\ call[c].pc = "refresh"
  /\ Drained
  /\ LET trigger == call[c].kind \in {"enqueue", "retry"}
         pq == IF trigger THEN ProcessQueueCall(listeners)
               ELSE [processing |-> processing, pass |-> pass,
                     notifies |-> 0, fires |-> 0]
     IN  /\ trigger => CanCallProcessQueue(listeners)
         /\ queuedItems' = Refreshed.queuedItems
         /\ isProcessingState' = Refreshed.isProcessing
         /\ prevCompletedCount' = Refreshed.prev
         /\ processing' = pq.processing
         /\ pass' = pq.pass
         /\ pendingRefresh' = AfterNotify(pq.notifies, listeners)
         /\ lastCall' = AfterFiresLast(Refreshed.fires + pq.fires)
         /\ newCompleted' = AfterFiresNew(Refreshed.fires + pq.fires)
         /\ call' = [call EXCEPT ![c] = NoCall]
  /\ UNCHANGED << store, usedIds, now, ticks, dbAvailable, abortController,
                  listeners, mounted, attempts, allFailed, thrown >>
  /\ UNCHANGED << everFailed, busVars >>

\* ------------------------------------------------------ the environment
Tick(d) ==
  /\ ticks < MaxTicks
  /\ Drained
  /\ now' = now + d
  /\ ticks' = ticks + 1
  /\ UNCHANGED << store, usedIds, dbAvailable, processing, abortController,
                  listeners, pass, call, mounted, pendingRefresh, queuedItems,
                  isProcessingState, prevCompletedCount, attempts, allFailed,
                  newCompleted, lastCall, thrown >>
  /\ UNCHANGED << everFailed, busVars >>

\* the page is discarded and loaded again: the module state and the
\* provider start afresh, the object store stays
Reload ==
  /\ mounted
  /\ Drained
  /\ dbAvailable' \in BOOLEAN
  /\ processing' = FALSE
  /\ abortController' = FALSE
  /\ listeners' = << >>
  /\ pass' = [p \in Passes |-> IdlePass]
  /\ call' = [c \in Calls |-> NoCall]
  /\ mounted' = FALSE
  /\ pendingRefresh' = 0
  /\ queuedItems' = << >>
  /\ isProcessingState' = FALSE
  /\ prevCompletedCount' = 0
  /\ newCompleted' = FALSE
  /\ lastCall' = "none"
  /\ thrown' = {}
  /\ UNCHANGED << store, usedIds, now, ticks, attempts, allFailed >>
  /\ UNCHANGED << everFailed, busVars >>

\* a step of a processQueue() invocation
PassStep ==
  \/ \E p \in Passes : CleanupStep(p)
  \/ \E p \in Passes : FetchStep(p)
  \/ \E p \in Passes : MaxFailStep(p)
  \/ \E p \in Passes : MarkStep(p)
  \/ \E p \in Passes, o \in Outcomes : SettleStep(p, o)
  \/ \E p \in Passes : WakeStep(p)

\* a step of the provider or of one of its callers
FacadeStep ==
  \/ Mount
  \/ RefreshDone
  \/ \E c \in Calls, ids \in SUBSET Ids : EnqueueWrite(c, ids)
  \/ \E c \in Calls : RetryRead(c)
  \/ \E c \in Calls : RetryUpdate(c)
  \/ \E c \in Calls, id \in Ids : RemoveWrite(c, id)
  \/ \E c \in Calls : FacadeRefresh(c)

\* Spec: page sessions of the provider, its callers and the passes they
\* start, with reloads in between
Next == PassStep \/ FacadeStep \/ Reload

Spec == Init /\ [][Next]_vars

\* SpecClock: one page session in which the clock advances between steps
\* and nothing is removed by hand
NextClock ==
  \/ PassStep
  \/ Mount
  \/ RefreshDone
  \/ \E c \in Calls, ids \in SUBSET Ids : EnqueueWrite(c, ids)
  \/ \E c \in Calls : RetryRead(c)
  \/ \E c \in Calls : RetryUpdate(c)
  \/ \E c \in Calls : FacadeRefresh(c)
  \/ \E d \in TickSteps : Tick(d)

SpecClock == Init /\ [][NextClock]_vars

\* ------------------------------------------- the listener registry alone
\* subscribe(l), lines 24-29: l is registered and its caller holds the
\* returned unsubscribe function
Subscribe(l) ==
  /\ subs < MaxSubscribes
  /\ listeners' = subscribe(listeners, l)
  /\ stamp' = IF stamp[l] = 0 THEN [stamp EXCEPT ![l] = subs + 1] ELSE stamp
  /\ subs' = subs + 1
  /\ handle' = [handle EXCEPT ![l] = "held"]
  /\ UNCHANGED << store, usedIds, now, ticks, dbAvailable, processing,
                  abortController, pass, call, mounted, pendingRefresh,
                  queuedItems, isProcessingState, prevCompletedCount,
                  attempts, allFailed, newCompleted, lastCall, thrown,
                  everFailed, invoked >>

\* the unsubscribe function of l is called, for the first or the second time
Unsubscribe(l) ==
  /\ handle[l] \in {"held", "called"}
  /\ listeners' = unsubscribe(listeners, l)
  /\ stamp' = [stamp EXCEPT ![l] = 0]
  /\ handle' = [handle EXCEPT ![l] = IF @ = "held" THEN "called" ELSE "again"]
  /\ UNCHANGED << store, usedIds, now, ticks, dbAvailable, processing,
                  abortController, pass, call, mounted, pendingRefresh,
                  queuedItems, isProcessingState, prevCompletedCount,
                  attempts, allFailed, newCompleted, lastCall, thrown,
                  everFailed, subs, invoked >>

\* one notifyListeners() call
BusNotify ==
  /\ invoked' = notifyListeners(listeners)
  /\ UNCHANGED << store, usedIds, now, ticks, dbAvailable, processing,
                  abortController, listeners, pass, call, mounted,
                  pendingRefresh, queuedItems, isProcessingState,
                  prevCompletedCount, attempts, allFailed, newCompleted,
                  lastCall, thrown, everFailed, stamp, subs, handle >>

\* SpecBus: subscribe, unsubscribe and notify calls in any order
NextBus ==
  \/ \E l \in BusListeners : Subscribe(l)
  \/ \E l \in BusListeners : Unsubscribe(l)
  \/ BusNotify

SpecBus == Init /\ [][NextBus]_vars

\* SpecAges: one page session whose transmissions succeed or are answered
\* with an unsuccessful result, with a wait up to the eviction thresholds
NextAges ==
  \/ \E p \in Passes : CleanupStep(p)
  \/ \E p \in Passes : FetchStep(p)
  \/ \E p \in Passes : MaxFailStep(p)
  \/ \E p \in Passes : MarkStep(p)
  \/ \E p \in Passes, o \in {"success", "unsuccessful"} : SettleStep(p, o)
  \/ Mount
  \/ RefreshDone
  \/ \E c \in Calls, ids \in SUBSET Ids : EnqueueWrite(c, ids)
  \/ \E c \in Calls : RetryRead(c)
  \/ \E c \in Calls : RetryUpdate(c)
  \/ \E c \in Calls : FacadeRefresh(c)
  \/ \E d \in AgeSteps : Tick(d)

SpecAges == Init /\ [][NextAges]_vars

\* ------------------------------------------------------------ claims
LoopingPasses == {p \in Passes : pass[p].pc # "idle"}

Uploading == {i \in Ids : store[i].status = "uploading"}

\* C1: at most one processQueue() invocation is inside its loop at any
\* instant; a call made while an earlier pass has not finished starts none.
C1_AtMostOnePass == Cardinality(LoopingPasses) <= 1

\* C2: in every reachable state of the store at most one entry has status
\* uploading.
C2_AtMostOneUploading == Cardinality(Uploading) <= 1

\* C3: after a transmission of a pass ended with an authorization failure,
\* that pass selects, marks and transmits no further entry.
C3_AuthFailureStopsPass ==
  \A p \in Passes :
    pass[p].authFailed => pass[p].pc \notin {"maxfail", "mark", "transmit", "sleep"}

\* C4: a cancelled transmission leaves the entry queued with the retryCount
\* it had before the attempt started (the one the pass read when it selected
\* the entry).
C4_CancelKeepsRetryCount ==
  [][\A p \in Passes :
       (SettleStep(p, "abort") /\ Present(store, pass[p].item.id))
         => /\ store'[pass[p].item.id].status = "queued"
            /\ store'[pass[p].item.id].retryCount = pass[p].item.retryCount]_vars

\* C5: a completed entry stays completed until it is removed or evicted; no
\* step gives it another status.
C5_CompletedIsTerminal ==
  [][\A i \in Ids :
       store[i].status = "completed"
         => store'[i].status \in {"completed", "absent"}]_vars

\* C6: a transmission that fails (unsuccessful result or an error other than
\* cancellation and authorization) while the entry's retryCount is below
\* MAX_RETRIES puts the entry back to queued, where the processor picks it up
\* again.
C6_FailureRequeues ==
  [][\A p \in Passes :
       ( /\ SettleStep(p, "error") \/ SettleStep(p, "unsuccessful")
         /\ Present(store, pass[p].item.id)
         /\ store[pass[p].item.id].retryCount < MAX_RETRIES )
         => store'[pass[p].item.id].status = "queued"]_vars

\* C7: the entry a pass selects has the smallest createdAt among the entries
\* that are queued or uploading at the moment of selection.
C7_OldestFirst ==
  [][\A p \in Passes :
       (FetchStep(p) /\ pass'[p].pc # "idle")
         => /\ IsPending(store[pass'[p].item.id])
            /\ \A i \in Ids :
                 IsPending(store[i])
                   => store[pass'[p].item.id].createdAt <= store[i].createdAt]_vars

\* C7 witness: a pass has selected an entry while a younger pending entry
\* sits before it in the stored (key) order.
C7_Witness ==
  \E p \in Passes, i \in Ids :
    /\ pass[p].pc = "mark"
    /\ i < pass[p].item.id
    /\ IsPending(store[i])
    /\ IsPending(store[pass[p].item.id])
    /\ store[i].createdAt > store[pass[p].item.id].createdAt

\* C8: once the processor has nothing left to do, an entry all of whose
\* transmissions failed has been transmitted exactly 3 times and is failed
\* with retryCount 3 and the message "Max retries exceeded".
C8_ThreeAttemptsThenMaxRetries ==
  \A i \in Ids :
    ( /\ LoopingPasses = {}
      /\ Present(store, i) /\ ~IsPending(store[i])
      /\ attempts[i] > 0 /\ allFailed[i] )
      => /\ attempts[i] = 3
         /\ store[i].status = "failed"
         /\ store[i].retryCount = 3
         /\ store[i].errorMessage = MaxRetriesMsg

\* C9: onUploadComplete is called only when at least one more entry reached
\* completed since the previous call.
C9_CompleteOnlyWithNewCompletion == lastCall # "stale"

\* C10: with the backing store unavailable no operation of the store, the
\* processor or the facade ends with an exception.
C10_NoExceptionWithoutStore == thrown = {}

Stored(st) == {i \in Ids : Present(st, i)}

\* C11: an enqueueFiles call with N files adds exactly N entries under ids no
\* stored entry has, each queued with retryCount 0, and leaves every entry
\* that was already stored as it was.
C11_EnqueueAddsExactlyN ==
  [][\A c \in Calls, ids \in SUBSET Ids :
       (EnqueueWrite(c, ids) /\ dbAvailable)
         => /\ ids \cap Stored(store) = {}
            /\ Stored(store') = Stored(store) \cup ids
            /\ Cardinality(Stored(store')) =
                 Cardinality(Stored(store)) + Cardinality(ids)
            /\ \A i \in ids : /\ store'[i].status = "queued"
                               /\ store'[i].retryCount = 0
                               /\ store'[i].createdAt = now
            /\ \A i \in Ids \ ids : store'[i] = store[i]]_vars

\* C11 witness: an enqueue call has just written its entry next to an entry
\* of an earlier call that a pass has already worked on.
C11_Witness ==
  \E c \in Calls, i, j \in Ids :
    /\ call[c].kind = "enqueue" /\ call[c].pc = "refresh"
    /\ store[i].status = "queued" /\ store[i].retryCount = 0
    /\ store[i].createdAt = now - 1
    /\ Present(store, j) /\ store[j].createdAt < store[i].createdAt
    /\ store[j].retryCount > 0

\* what cleanupOld has to evict at time t
Expired(u, t) ==
  \/ u.status = "completed" /\ t - u.createdAt > ONE_HOUR
  \/ t - u.createdAt > ONE_DAY

\* C12: cleanupOld removes exactly the entries that are completed and older
\* than one hour or older than one day in any status, and leaves every other
\* entry as it was; an entry whose age equals the threshold stays.
C12_CleanupRemovesExactlyExpired ==
  [][\A p \in Passes :
       (CleanupStep(p) /\ dbAvailable)
         => \A i \in Ids :
              store'[i] = IF Present(store, i) /\ Expired(store[i], now)
                          THEN NoEntry ELSE store[i]]_vars

\* C12 witness: a pass has run cleanupOld, which evicted an entry and kept a
\* completed entry that is exactly one hour old.
C12_Witness ==
  \E p \in Passes, i \in usedIds, j \in Ids :
    /\ pass[p].pc = "fetch"
    /\ ~Present(store, i)
    /\ store[j].status = "completed"
    /\ now - store[j].createdAt = ONE_HOUR

\* C13: every write of retryFailed() turns a failed entry into a queued one
\* with the same retryCount and touches no entry that is queued, uploading or
\* completed; when the writes are done retryFailed() calls processQueue().
C13_RetryRequeuesOnlyFailed ==
  [][\A c \in Calls :
       /\ RetryUpdate(c)
            => LET id == Head(call[c].todo)
               IN  /\ \A i \in Ids \ {id} : store'[i] = store[i]
                   /\ store[id].status \in {"queued", "uploading", "completed"}
                        => store'[id] = store[id]
                   /\ store[id].status = "failed"
                        => store'[id] = [store[id] EXCEPT !.status = "queued"]
       /\ (FacadeRefresh(c) /\ call[c].kind = "retry")
            => processing']_vars

\* C14: removeFromQueue(id) issued while entry id has status uploading
\* leaves that entry in the store.
C14_RemoveSparesUploading ==
  [][\A c \in Calls, id \in Ids :
       (RemoveWrite(c, id) /\ store[id].status = "uploading")
         => Present(store', id)]_vars

\* C15: every stored entry that carries an errorMessage has status failed.
C15_MessageOnlyOnFailed ==
  \A i \in Ids :
    (Present(store, i) /\ store[i].errorMessage # NoMessage)
      => store[i].status = "failed"

\* C16: every failed entry has retryCount >= MAX_RETRIES or had a
\* transmission that ended in an unsuccessful result or in an error other
\* than a cancellation.
C16_FailedHasCause ==
  \A i \in Ids :
    store[i].status = "failed"
      => store[i].retryCount >= MAX_RETRIES \/ everFailed[i]

\* C16 witness: an entry whose first transmission was cancelled and which was
\* transmitted again is failed.
C16_Witness ==
  \E i \in Ids :
    /\ store[i].status = "failed"
    /\ store[i].retryCount = 2
    /\ attempts[i] = 2
    /\ ~allFailed[i]

\* C17: an entry's retryCount never decreases; a step that increases it is
\* the status update to uploading of processItem and increases it by exactly
\* 1; every other step leaves the retryCount of every entry it keeps.
C17_RetryCountCountsUploads ==
  [][\A i \in Ids :
       (Present(store, i) /\ Present(store', i))
         => \/ store'[i].retryCount = store[i].retryCount
            \/ /\ store'[i].retryCount = store[i].retryCount + 1
               /\ store'[i].status = "uploading"
               /\ \E p \in Passes : MarkStep(p) /\ pass[p].item.id = i]_vars

\* C17 witness: an entry that was marked uploading twice, failed twice and
\* was put back by retryFailed() twice has retryCount 2.
C17_Witness ==
  \E i \in Ids :
    /\ store[i].status = "queued"
    /\ store[i].retryCount = 2
    /\ attempts[i] = 2
    /\ allFailed[i]

\* the listeners of a sequence of calls
Called(calls) == {calls[k] : k \in 1..Len(calls)}

C19_UnsubscribeIdempotent ==
  [][/\ \A l \in BusListeners :
          Unsubscribe(l)
            => /\ ~Registered(listeners', l)
               /\ handle[l] = "called" => listeners' = listeners
     /\ BusNotify
          => \A l \in BusListeners :
               handle[l] \in {"called", "again"} => l \notin Called(invoked')]_vars

\* C19 witness: an unsubscribe function has been called twice and a
\* notification has since called the listeners that remain.
C19_Witness ==
  \E l \in BusListeners :
    /\ handle[l] = "again"
    /\ listeners # << >>
    /\ invoked = listeners
    /\ l \notin Called(invoked)

\* the order of display: the rank of a status
RankOrder == << "uploading", "queued", "failed", "completed" >>

StatusRank(status) == CHOOSE k \in 1..Len(RankOrder) : RankOrder[k] = status

\* C20: the snapshot a refresh gives the facade holds every stored entry
\* once and nothing else, ordered by status rank uploading < queued < failed
\* < completed and by ascending createdAt within one status.
C20_SnapshotSorted ==
  [][((RefreshDone \/ \E c \in Calls : FacadeRefresh(c)) /\ dbAvailable)
       => /\ Len(queuedItems') = Cardinality(Stored(store))
          /\ \A i \in Stored(store) :
               \E k \in 1..Len(queuedItems') : queuedItems'[k] = WithId(store, i)
          /\ \A k \in 1..(Len(queuedItems') - 1) :
               LET a == queuedItems'[k]
                   b == queuedItems'[k + 1]
               IN  \/ StatusRank(a.status) < StatusRank(b.status)
                   \/ /\ a.status = b.status
                      /\ a.createdAt <= b.createdAt]_vars

\* C20 witness: the snapshot shows a younger entry before an older one that
\* sits before it in the store.
C20_Witness ==
  /\ Len(queuedItems) = 2
  /\ queuedItems[1].createdAt > queuedItems[2].createdAt
  /\ queuedItems[1].id > queuedItems[2].id
  /\ queuedItems = SortForDisplay(getAllUploads(store))

\* C22: every transmission failure that is neither a cancellation nor an
\* authorization failure, an unsuccessful result as well as a thrown error,
\* marks the entry failed with the failure's message, is followed by the
\* backoff wait before the next selection, and does not end the pass
C22_FailureBacksOff ==
  [][\A p \in Passes, o \in {"unsuccessful", "error"} :
       SettleStep(p, o) =>
         /\ Present(store, pass[p].item.id) =>
              /\ store'[pass[p].item.id].status = "failed"
              /\ store'[pass[p].item.id].errorMessage = FailureMsg
         /\ pass'[p].pc = "sleep"]_vars

\* C25: whenever a transmission is in flight or the loop of a pass is
\* running, the processing flag is true, so that the beforeunload handler
\* asks the browser to block the unload
C25_UnloadBlockedWhileRunning ==
  LoopingPasses # {} => processing

\* C26: after a failed attempt that is followed by a wait, the wait is
\* 1000 ms * 2^retryCount, retryCount being the stored count of the
\* attempts made so far, the failed one included
C26_BackoffDoublesFromStoredCount ==
  \A p \in Passes :
    (pass[p].pc = "sleep" /\ Present(store, pass[p].item.id)) =>
      delay(p) = BASE_DELAY_MS * Pow2(store[pass[p].item.id].retryCount)

\* C30: a write of retryFailed() changes the status of an entry only if the
\* entry is failed at the moment of the write: an entry that has become
\* uploading or completed since retryFailed() read the store is never set
\* back to queued
C30_RetryWritesOnlyWhatIsFailed ==
  [][\A c \in Calls, i \in Ids :
       (RetryUpdate(c) /\ store'[i].status # store[i].status)
         => store[i].status = "failed"]_vars

\* ------------------------------------------- a session that resumes work
\* what an interrupted earlier session can leave of one entry: it is queued
\* or uploading, and each transmission started for it was counted
Leftovers ==
  {u \in [status : {"queued", "uploading"}, retryCount : 0..MAX_RETRIES,
          createdAt : {0}, errorMessage : {NoMessage}] :
     u.status = "uploading" => u.retryCount >= 1}

\* a freshly loaded page over a reachable object store that is empty or
\* holds one entry left by an earlier session
InitResumed ==
  /\ \/ store = EmptyStore /\ usedIds = {} /\ now = 0
     \/ \E u \in Leftovers :
          store = [EmptyStore EXCEPT ![1] = u] /\ usedIds = {1} /\ now = 1
  /\ ticks = 0
  /\ dbAvailable = TRUE
  /\ processing = FALSE
  /\ abortController = FALSE
  /\ listeners = << >>
  /\ pass = [p \in Passes |-> IdlePass]
  /\ call = [c \in Calls |-> NoCall]
  /\ mounted = FALSE
  /\ pendingRefresh = 0
  /\ queuedItems = << >>
  /\ isProcessingState = FALSE
  /\ prevCompletedCount = 0
  /\ attempts = [i \in Ids |-> 0]
  /\ allFailed = [i \in Ids |-> TRUE]
  /\ newCompleted = FALSE
  /\ lastCall = "none"
  /\ thrown = {}
  /\ everFailed = [i \in Ids |-> FALSE]
  /\ stamp = [l \in BusListeners |-> 0]
  /\ subs = 0
  /\ handle = [l \in BusListeners |-> "none"]
  /\ invoked = << >>

\* one page session without retryFailed() and removeFromQueue() calls
NextResumed ==
  \/ \E p \in Passes : CleanupStep(p)
  \/ \E p \in Passes : FetchStep(p)
  \/ \E p \in Passes : MaxFailStep(p)
  \/ \E p \in Passes : MarkStep(p)
  \/ \E p \in Passes, o \in Outcomes : SettleStep(p, o)
  \/ \E p \in Passes : WakeStep(p)
  \/ Mount
  \/ RefreshDone
  \/ \E c \in Calls, ids \in SUBSET Ids : EnqueueWrite(c, ids)
  \/ \E c \in Calls : FacadeRefresh(c)

\* SpecResumed: that session over what an earlier session left
SpecResumed == InitResumed /\ [][NextResumed]_vars

\* C24: the processor starts no transmission for an entry whose stored
\* retryCount is 3 or more, so that no stored retryCount exceeds
\* MAX_RETRIES
C24_RetryBudgetRespected ==
  /\ \A i \in Ids : store[i].retryCount <= MAX_RETRIES
  /\ \A p \in Passes :
       pass[p].pc = "transmit" /\ Present(store, pass[p].item.id)
         => store[pass[p].item.id].retryCount <= MAX_RETRIES

\* C27: updateStatus for an id that is not in the store leaves the store
\* unchanged: the outcome of a transmission whose entry was removed in the
\* meantime is recorded nowhere, and no step brings a removed entry back
C27_RemovedEntryStaysRemoved ==
  [][/\ \A p \in Passes, o \in Outcomes :
          (SettleStep(p, o) /\ ~Present(store, pass[p].item.id))
            => store' = store
     /\ \A p \in Passes :
          ((MarkStep(p) \/ MaxFailStep(p)) /\ ~Present(store, pass[p].item.id))
            => store' = store
     /\ \A i \in usedIds : ~Present(store, i) => ~Present(store', i)]_vars

\* entry 1 was removed while its transmission was in flight and the
\* transmission has since ended in a failure: the provider's last snapshot,
\* taken before the removal, still shows the entry uploading
C27_Witness ==
  /\ 1 \in usedIds /\ ~Present(store, 1)
  /\ everFailed[1]
  /\ pendingRefresh > 0
  /\ \E k \in 1..Len(queuedItems) :
       queuedItems[k].id = 1 /\ queuedItems[k].status = "uploading"

\* C28: when a pass that met no authorization failure and no failing store
\* operation ends, the flag is cleared and at that moment no stored entry
\* is queued or uploading
C28_PassEndsWithNothingPending ==
  [][\A p \in Passes :
       (FetchStep(p) /\ pass'[p].pc = "idle" /\ ~pass[p].authFailed)
         => /\ ~processing'
            /\ \A i \in Ids : store'[i].status \notin {"queued", "uploading"}]_vars

\* a pass has just ended, its last notification is still on its way, and
\* it has brought an entry to completed
C28_Witness ==
  /\ LoopingPasses = {} /\ ~processing /\ mounted
  /\ pendingRefresh > 0
  /\ \E i \in Ids : store[i].status = "completed" /\ attempts[i] >= 1

\* -------------------------------------------- a listener that throws
\* the listeners whose call throws an exception
Throwing == {"third"}

\* notifyListeners(), lines 18-22, over such listeners: the for loop has no
\* try, so the first exception leaves it and reaches the caller
RECURSIVE CalledUntilThrow(_)
CalledUntilThrow(ls) ==
  IF ls = << >> THEN << >>
  ELSE IF Head(ls) \in Throwing THEN << Head(ls) >>
  ELSE << Head(ls) >> \o CalledUntilThrow(Tail(ls))

NotifyThrows(ls) == \E k \in 1..Len(ls) : ls[k] \in Throwing

\* processQueue() is called while a listener that throws is registered:
\* lines 36-38 set the flag and notify before the try of line 40 is entered,
\* so the exception leaves processQueue() without running its finally
ProcessQueueThrows ==
  /\ ~processing
  /\ NotifyThrows(listeners)
  /\ processing' = TRUE
  /\ invoked' = CalledUntilThrow(listeners)
  /\ thrown' = thrown \cup {"processQueue"}
  /\ UNCHANGED << store, usedIds, now, ticks, dbAvailable, abortController,
                  listeners, pass, call, mounted, pendingRefresh, queuedItems,
                  isProcessingState, prevCompletedCount, attempts, allFailed,
                  newCompleted, lastCall, everFailed, stamp, subs, handle >>

\* SpecThrow: listeners come and go and processQueue() is called while one
\* that throws is registered
NextThrow ==
  \/ \E l \in BusListeners : Subscribe(l)
  \/ \E l \in BusListeners : Unsubscribe(l)
  \/ ProcessQueueThrows

SpecThrow == Init /\ [][NextThrow]_vars

\* C23: after a processQueue() invocation that set the flag has finished,
\* normally or with an exception, the flag is false: it is never true while
\* no pass is running
C23_FlagTrueOnlyWhilePassRuns ==
  processing => LoopingPasses # {}

\* ------------------------------------------------ progress of a session
\* one page session over a reachable store in which one file at most is
\* enqueued and retryFailed() and removeFromQueue() are not called: the
\* retry budget of the code bounds its transmissions
NextLive ==
  \/ \E p \in Passes : CleanupStep(p)
  \/ \E p \in Passes : FetchStep(p)
  \/ \E p \in Passes : MaxFailStep(p)
  \/ \E p \in Passes : Mark(p)
  \/ \E p \in Passes, o \in Outcomes : SettleStep(p, o)
  \/ \E p \in Passes : WakeStep(p)
  \/ Mount
  \/ RefreshDone
  \/ \E c \in Calls : EnqueueWrite(c, {1})
  \/ \E c \in Calls : FacadeRefresh(c)
  \/ \E d \in TickSteps : Tick(d)

\* a store request that was issued completes and a timer that was set fires
FairStore ==
  \A p \in Passes :
    /\ WF_vars(CleanupStep(p))
    /\ WF_vars(FetchStep(p))
    /\ WF_vars(MaxFailStep(p))
    /\ WF_vars(Mark(p))
    /\ WF_vars(WakeStep(p))

\* a refreshState() that was started finishes and the call that awaits it
\* goes on
FairFacade ==
  /\ WF_vars(RefreshDone)
  /\ \A c \in Calls : WF_vars(FacadeRefresh(c))

\* every transmission settles
FairTransmit ==
  \A p \in Passes : WF_vars(\E o \in Outcomes : SettleStep(p, o))

\* SpecFresh: the session with the event loop running
SpecFresh == InitResumed /\ [][NextLive]_vars /\ FairStore /\ FairFacade

\* SpecLive: the same, with transmissions that all settle
SpecLive ==
  InitResumed /\ [][NextLive]_vars /\ FairStore /\ FairFacade /\ FairTransmit

\* the provider's state shows the store and the flag as they are
ViewCurrent ==
  /\ queuedItems = SortForDisplay(getAllUploads(store))
  /\ isProcessingState = processing

====
